---- MODULE Spec2Model ----
(***************************************************************************)
(* A model of app/fix_role_name.py: the role-name validator and            *)
(* normaliser, the role scanner, the rename-map builder, the directory     *)
(* rename executor, the YAML reference rewriter and the final cleanup      *)
(* sweep, run as the phases of main() over a small directory tree.         *)
(*                                                                         *)
(* Names are sequences of one-character strings, paths are sequences of    *)
(* names relative to the collection root, and the file system is a         *)
(* function from the existing paths to nodes.                              *)
(***************************************************************************)
EXTENDS Integers, Sequences, FiniteSets, TLC

VARIABLES
    fs,             \* the tree under the collection root: path -> node
    dry_run,        \* args.dry_run
    pc,             \* position of main(): the phase about to execute
    roles,          \* find_roles(root): sequence of [path, name]
    rename_map,     \* ordered dict old name -> new name, as a sequence of pairs
    idx,            \* position of the executor loop in roles
    renamed_paths,  \* ordered dict old_path -> new_path, as a sequence of pairs
    todo,           \* documents of the current rewriter pass not yet visited
    run,            \* number of the current run of main()
    fs0,            \* the tree before the first run
    start_fs,       \* the tree when the current run started
    log,            \* what the current run did: set of event records
    arg,            \* the argument of the next call of a function on its own
    calls           \* the calls of functions on their own so far, in order

vars == <<fs, dry_run, pc, roles, rename_map, idx, renamed_paths, todo, run,
          fs0, start_fs, log, arg, calls>>

----------------------------------------------------------------------------
(* Characters and names *)

LowerLetters == <<"a","b","c","d","e","f","g","h","i","j","k","l","m",
                  "n","o","p","q","r","s","t","u","v","w","x","y","z">>
UpperLetters == <<"A","B","C","D","E","F","G","H","I","J","K","L","M",
                  "N","O","P","Q","R","S","T","U","V","W","X","Y","Z">>
Digits == {"0","1","2","3","4","5","6","7","8","9"}

Range(s) == {s[i] : i \in DOMAIN s}

\* the character class [a-z0-9_]
NameChars == Range(LowerLetters) \cup Digits \cup {"_"}

\* the character class [a-z0-9_\-./]
RefChars == NameChars \cup {"-", ".", "/"}

NL == "\n"

MinNameLen == 2
MaxNameLen == 55

\* str.lower() on one character
LowerChar(c) ==
    IF \E i \in DOMAIN UpperLetters : UpperLetters[i] = c
    THEN LowerLetters[CHOOSE i \in DOMAIN UpperLetters : UpperLetters[i] = c]
    ELSE c

\* re.match(r'^[a-z0-9_]+$', name): $ also matches before one trailing newline
MatchesNamePattern(name) ==
    LET body == IF Len(name) > 0 /\ name[Len(name)] = NL
                THEN SubSeq(name, 1, Len(name) - 1)
                ELSE name
    IN  /\ Len(body) >= 1
        /\ \A i \in DOMAIN body : body[i] \in NameChars

is_valid_role_name(name) ==
    /\ MinNameLen <= Len(name) /\ Len(name) <= MaxNameLen
    /\ MatchesNamePattern(name)
    /\ name[1] \notin Digits

\* a prefix that itself starts with a digit
RolePrefix_digit == <<"1","_">>

RolePrefix == <<"r","o","l","e","_">>

fix_role_name(name) ==
    LET lowered  == [i \in DOMAIN name |-> LowerChar(name[i])]
        replaced == [i \in DOMAIN lowered |->
                        IF lowered[i] = "-" THEN "_" ELSE lowered[i]]
        stripped == SelectSeq(replaced, LAMBDA c : c \in NameChars)
        undigit  == IF Len(stripped) > 0 /\ stripped[1] \in Digits
                    THEN RolePrefix \o stripped ELSE stripped
        padded   == IF Len(undigit) < MinNameLen
                    THEN RolePrefix \o undigit ELSE undigit
    IN  IF Len(padded) > MaxNameLen THEN SubSeq(padded, 1, MaxNameLen)
        ELSE padded

----------------------------------------------------------------------------
(* Strings as sequences of characters *)

IsPrefix(p, q) == Len(p) <= Len(q) /\ SubSeq(q, 1, Len(p)) = p

IsSuffix(p, q) == Len(p) <= Len(q) /\ SubSeq(q, Len(q) - Len(p) + 1, Len(q)) = p

\* Python's  n in s  on strings
IsSubstring(n, s) ==
    \E i \in 0..(Len(s) - Len(n)) : SubSeq(s, i + 1, i + Len(n)) = n

\* str.split(sep) for a one-character separator
RECURSIVE SplitOn(_, _)
SplitOn(s, sep) ==
    IF \A i \in DOMAIN s : s[i] # sep THEN <<s>>
    ELSE LET k == CHOOSE i \in DOMAIN s :
                      s[i] = sep /\ \A j \in 1..(i - 1) : s[j] # sep
         IN  <<SubSeq(s, 1, k - 1)>> \o SplitOn(SubSeq(s, k + 1, Len(s)), sep)

\* sep.join(parts)
RECURSIVE JoinWith(_, _)
JoinWith(parts, sep) ==
    IF Len(parts) = 0 THEN <<>>
    ELSE IF Len(parts) = 1 THEN parts[1]
    ELSE parts[1] \o <<sep>> \o JoinWith(Tail(parts), sep)

\* str.replace(pat, rep): every non-overlapping occurrence, leftmost first
RECURSIVE ReplaceAll(_, _, _)
ReplaceAll(s, pat, rep) ==
    IF Len(pat) = 0 \/ ~IsSubstring(pat, s) THEN s
    ELSE LET k == CHOOSE i \in 0..(Len(s) - Len(pat)) :
                      /\ SubSeq(s, i + 1, i + Len(pat)) = pat
                      /\ \A j \in 0..(i - 1) : SubSeq(s, j + 1, j + Len(pat)) # pat
         IN  SubSeq(s, 1, k) \o rep
                 \o ReplaceAll(SubSeq(s, k + Len(pat) + 1, Len(s)), pat, rep)

\* the longest prefix of s made of characters of the class cls
RECURSIVE LongestPrefixIn(_, _)
LongestPrefixIn(s, cls) ==
    IF Len(s) = 0 \/ s[1] \notin cls THEN <<>>
    ELSE <<s[1]>> \o LongestPrefixIn(Tail(s), cls)

\* every enumeration of a finite set as a sequence (an arbitrary listing order)
RECURSIVE Orderings(_)
Orderings(S) ==
    IF S = {} THEN {<<>>}
    ELSE UNION {{<<x>> \o t : t \in Orderings(S \ {x})} : x \in S}

RECURSIVE Flatten(_)
Flatten(ss) == IF Len(ss) = 0 THEN <<>> ELSE Head(ss) \o Flatten(Tail(ss))

----------------------------------------------------------------------------
(* The file system *)

N_roles     == <<"r","o","l","e","s">>
N_meta      == <<"m","e","t","a">>
N_tasks     == <<"t","a","s","k","s">>
N_tests     == <<"t","e","s","t","s">>
N_files     == <<"f","i","l","e","s">>
N_templates == <<"t","e","m","p","l","a","t","e","s">>
N_library   == <<"l","i","b","r","a","r","y">>
N_main_yml  == <<"m","a","i","n",".","y","m","l">>
Ext_yml     == <<".","y","m","l">>
Ext_yaml    == <<".","y","a","m","l">>

\* os.path.join(root, "roles"), relative to root
roles_dir == <<N_roles>>

IsLink(f, p) == p \in DOMAIN f /\ f[p].kind = "link"

\* os.path.exists / Path.exists: follows links, and the links of the model dangle
Exists(f, p) == p = <<>> \/ (p \in DOMAIN f /\ f[p].kind # "link")

\* os.path.isdir / Path.is_dir
IsDir(f, p) == p = <<>> \/ (p \in DOMAIN f /\ f[p].kind = "dir")

Parent(p) == SubSeq(p, 1, Len(p) - 1)

BaseName(p) == p[Len(p)]

\* p and everything below it
Under(f, p) == {q \in DOMAIN f : IsPrefix(p, q)}

\* Path.iterdir()
Children(f, p) == {q \in DOMAIN f : Len(q) = Len(p) + 1 /\ IsPrefix(p, q)}

Restrict(f, D) == [q \in D |-> f[q]]

\* shutil.rmtree(p)
RmTree(f, p) == Restrict(f, DOMAIN f \ Under(f, p))

\* os.remove(p)
Remove(f, p) == Restrict(f, DOMAIN f \ {p})

Rebase(q, src, dst) == dst \o SubSeq(q, Len(src) + 1, Len(q))

\* shutil.move(src, dst) with dst absent: a rename of the whole subtree
Move(f, src, dst) ==
    LET moved == Under(f, src)
        kept  == DOMAIN f \ moved
    IN  [q \in kept \cup {Rebase(m, src, dst) : m \in moved} |->
            IF q \in kept THEN f[q]
            ELSE f[CHOOSE m \in moved : Rebase(m, src, dst) = q]]

----------------------------------------------------------------------------
(* find_roles: the scanner *)

\* every concatenation that takes one sequence from each set of ss, in order
RECURSIVE Concats(_)
Concats(ss) ==
    IF Len(ss) = 0 THEN {<<>>}
    ELSE {a \o b : a \in Head(ss), b \in Concats(Tail(ss))}

\* has_meta or has_tasks
IsRoleDir(f, entry) ==
    Exists(f, entry \o <<N_meta>>) \/ Exists(f, entry \o <<N_tasks>>)

\* The lists search_for_roles can append below search_path: iterdir() lists
\* the entries in an arbitrary order, so each order of the entries that
\* contribute something is one possible result.
RECURSIVE search_for_roles(_, _, _)
search_for_roles(f, search_path, base_path) ==
    LET dirs == {e \in Children(f, search_path) : IsDir(f, e)}
        Visit(e) ==
            LET found == IF IsRoleDir(f, e)
                         THEN <<[path  |-> e,
                                 name  |-> BaseName(e),
                                 depth |-> Len(e) - Len(base_path)]>>
                         ELSE <<>>
            IN  {found \o below : below \in search_for_roles(f, e, base_path)}
        productive == {e \in dirs : Visit(e) # {<<>>}}
    IN  UNION {Concats([i \in DOMAIN o |-> Visit(o[i])]) :
                  o \in Orderings(productive)}

\* a sort by depth the other way round, shallowest first
RECURSIVE SortByDepthDesc_ascending(_, _)
SortByDepthDesc_ascending(found, d) ==
    IF d <= 0 THEN <<>>
    ELSE SortByDepthDesc_ascending(found, d - 1)
             \o SelectSeq(found, LAMBDA r : r.depth = d)

\* the list as search_for_roles built it, a directory before the roles
\* below it
SortByDepthDesc_unsorted(found, d) == found

\* roles.sort(key=depth, reverse=True): stable, deepest first
RECURSIVE SortByDepthDesc(_, _)
SortByDepthDesc(found, d) ==
    IF d <= 0 THEN <<>>
    ELSE SelectSeq(found, LAMBDA r : r.depth = d) \o SortByDepthDesc(found, d - 1)

MaxDepthIn(found) ==
    IF Len(found) = 0 THEN 0
    ELSE CHOOSE d \in {found[i].depth : i \in DOMAIN found} :
             \A i \in DOMAIN found : found[i].depth <= d

StripDepth(found) ==
    [i \in DOMAIN found |-> [path |-> found[i].path, name |-> found[i].name]]

\* the set of lists find_roles(root) can return on the tree f
find_roles(f) ==
    IF ~Exists(f, roles_dir) THEN {<<>>}
    ELSE {StripDepth(SortByDepthDesc(found, MaxDepthIn(found))) :
             found \in search_for_roles(f, roles_dir, roles_dir)}

\* One directory the process has no full access to.  mode "no_read": it
\* cannot be listed (iterdir raises PermissionError); "no_search": what it
\* holds cannot be reached (stat of anything below raises PermissionError);
\* "none": neither.  NoDenial: every directory is accessible.
NoDenial == [path |-> <<>>, mode |-> "ok"]

CannotList(deny, p)   == deny.path = p /\ deny.mode \in {"no_read", "none"}
CannotSearch(deny, p) == deny.path = p /\ deny.mode \in {"no_search", "none"}

\* lines 95-118 with the PermissionError of lines 116-118: the lists
\* search_for_roles can append below search_path.  The try encloses the
\* whole loop, so an error raised for one entry ends the loop of the call
\* it is raised in: (entry / "meta").exists() raises in the loop of the
\* parent when entry cannot be searched, iterdir() and entry.is_dir() raise
\* in the call on the directory itself.
RECURSIVE search_with_errors(_, _, _, _)
RECURSIVE loop_with_errors(_, _, _, _)
loop_with_errors(f, deny, entries, base_path) ==
    IF Len(entries) = 0 THEN {<<>>}
    ELSE LET e == Head(entries)
         IN  IF CannotSearch(deny, e) THEN {<<>>}
             ELSE {(IF IsRoleDir(f, e)
                    THEN <<[path  |-> e,
                            name  |-> BaseName(e),
                            depth |-> Len(e) - Len(base_path)]>>
                    ELSE <<>>) \o below \o rest :
                      below \in search_with_errors(f, deny, e, base_path),
                      rest  \in loop_with_errors(f, deny, Tail(entries), base_path)}

search_with_errors(f, deny, search_path, base_path) ==
    IF CannotList(deny, search_path) \/ CannotSearch(deny, search_path) THEN {<<>>}
    ELSE UNION {loop_with_errors(f, deny, o, base_path) :
                   o \in Orderings({e \in Children(f, search_path) : IsDir(f, e)})}

\* find_roles(root) when one directory below roles/ raises PermissionError
find_roles_with_errors(f, deny) ==
    IF ~Exists(f, roles_dir) THEN {<<>>}
    ELSE {StripDepth(SortByDepthDesc(found, MaxDepthIn(found))) :
             found \in search_with_errors(f, deny, roles_dir, roles_dir)}

----------------------------------------------------------------------------
(* Documents: the text of a YAML file and its parsed tree *)

K_role         == <<"r","o","l","e">>
K_name         == <<"n","a","m","e">>
K_roles        == <<"r","o","l","e","s">>
K_hosts        == <<"h","o","s","t","s">>
K_dependencies == <<"d","e","p","e","n","d","e","n","c","i","e","s">>
K_include_role == <<"i","n","c","l","u","d","e","_","r","o","l","e">>
K_import_role  == <<"i","m","p","o","r","t","_","r","o","l","e">>

\* A node of the tree: a scalar string (quoted or plain in the text), a
\* sequence, or a mapping with its keys in order.
Str(s)  == [t |-> "str", s |-> s,    q |-> FALSE, keys |-> <<>>, items |-> <<>>]
QStr(s) == [t |-> "str", s |-> s,    q |-> TRUE,  keys |-> <<>>, items |-> <<>>]
SeqV(items) ==
           [t |-> "seq", s |-> <<>>, q |-> FALSE, keys |-> <<>>, items |-> items]
MapV(keys, items) ==
           [t |-> "map", s |-> <<>>, q |-> FALSE, keys |-> keys, items |-> items]
NullV   == [t |-> "null", s |-> <<>>, q |-> FALSE, keys |-> <<>>, items |-> <<>>]

\* The content of a file.  foreign: one of 'apiVersion:', 'kind: ',
\* 'metadata:' stands in its first 500 characters.  parseable: safe_load
\* accepts the text (a multi-document stream does not parse).  dumped: the
\* text is '---' followed by safe_dump's output, not the text as authored.
\* data: the nodes the text writes down.
Body(foreign, parseable, data) ==
    [foreign |-> foreign, parseable |-> parseable, dumped |-> FALSE, data |-> data]

NoBody == Body(FALSE, FALSE, NullV)

\* yaml.safe_load: the parsed tree holds values only, no quoting style
RECURSIVE safe_load(_)
safe_load(v) ==
    [v EXCEPT !.q = FALSE,
              !.items = [i \in DOMAIN v.items |-> safe_load(v.items[i])]]

\* f.write('---\n'); yaml.safe_dump(data, f): block style, plain scalars
safe_dump(data) ==
    [foreign |-> FALSE, parseable |-> TRUE, dumped |-> TRUE, data |-> data]

\* the strings (keys and scalars) that the text writes down
RECURSIVE Pieces(_)
Pieces(v) ==
    (IF v.t = "str" THEN {v.s} ELSE {})
        \cup {v.keys[i] : i \in DOMAIN v.keys}
        \cup UNION {Pieces(v.items[i]) : i \in DOMAIN v.items}

\* old_name in content
Mentions(body, word) == \E piece \in Pieces(body.data) : IsSubstring(word, piece)

----------------------------------------------------------------------------
(* Ordered dicts as sequences of <<key, value>> pairs *)

DictKeys(m) == {m[i][1] : i \in DOMAIN m}

DictHas(m, k) == k \in DictKeys(m)

DictGet(m, k) == m[CHOOSE i \in DOMAIN m : m[i][1] = k][2]

\* m[k] = v: a new key goes last, an existing key keeps its place
DictPut(m, k, v) ==
    IF DictHas(m, k)
    THEN [i \in DOMAIN m |-> IF m[i][1] = k THEN <<k, v>> ELSE m[i]]
    ELSE Append(m, <<k, v>>)

----------------------------------------------------------------------------
(* update_yaml_file: the reference rewriter on one document and one entry *)

\* lines 167-169: each part that is a key of the rename map is replaced
MapParts(parts, rmap) ==
    [i \in DOMAIN parts |->
        IF DictHas(rmap, parts[i]) THEN DictGet(rmap, parts[i]) ELSE parts[i]]

\* lines 174-175
ReplaceLast(parts, old_name, new_name) ==
    IF parts[Len(parts)] = old_name THEN [parts EXCEPT ![Len(parts)] = new_name]
    ELSE parts

\* an update_role_reference that leaves slash-qualified references alone
update_role_reference_bare_only(role_ref, old_name, new_name, rmap) ==
    IF "/" \in Range(role_ref) THEN role_ref
    ELSE IF role_ref = old_name THEN new_name
    ELSE IF IsSuffix(<<".">> \o old_name, role_ref)
         THEN ReplaceAll(role_ref, <<".">> \o old_name, <<".">> \o new_name)
    ELSE role_ref

update_role_reference(role_ref, old_name, new_name, rmap) ==
    IF "/" \in Range(role_ref)
    THEN JoinWith(ReplaceLast(MapParts(SplitOn(role_ref, "/"), rmap),
                              old_name, new_name), "/")
    ELSE IF role_ref = old_name THEN new_name
    ELSE IF IsSuffix(<<".">> \o old_name, role_ref)
         THEN ReplaceAll(role_ref, <<".">> \o old_name, <<".">> \o new_name)
    ELSE role_ref

HasKey(v, k) == v.t = "map" /\ \E i \in DOMAIN v.keys : v.keys[i] = k

ValueAt(v, k) == v.items[CHOOSE i \in DOMAIN v.keys : v.keys[i] = k]

\* a string node rewritten, any other node as it is
UpdateScalar(v, old_name, new_name, rmap) ==
    IF v.t = "str" THEN Str(update_role_reference(v.s, old_name, new_name, rmap))
    ELSE v

\* lines 192-202: one entry of the dependencies list
UpdateDep(dep, old_name, new_name, rmap) ==
    IF HasKey(dep, K_role)
    THEN [dep EXCEPT !.items = [j \in DOMAIN dep.items |->
             IF dep.keys[j] = K_role
             THEN UpdateScalar(dep.items[j], old_name, new_name, rmap)
             ELSE dep.items[j]]]
    ELSE UpdateScalar(dep, old_name, new_name, rmap)

\* lines 188-202: the dependencies list of a meta/main.yml
update_dependencies(data, old_name, new_name, rmap) ==
    IF HasKey(data, K_dependencies) /\ ValueAt(data, K_dependencies).t = "seq"
    THEN [data EXCEPT !.items = [i \in DOMAIN data.items |->
             IF data.keys[i] = K_dependencies
             THEN [data.items[i] EXCEPT !.items =
                      [j \in DOMAIN data.items[i].items |->
                          UpdateDep(data.items[i].items[j], old_name, new_name, rmap)]]
             ELSE data.items[i]]]
    ELSE data

\* lines 211-218: the fields 'role' and 'name' of a mapping
UpdateFields(obj, old_name, new_name, rmap) ==
    [obj EXCEPT !.items = [i \in DOMAIN obj.items |->
        IF obj.keys[i] \in {K_role, K_name}
        THEN UpdateScalar(obj.items[i], old_name, new_name, rmap)
        ELSE obj.items[i]]]

\* lines 205-233: the walk over the parsed tree
RECURSIVE update_structure(_, _, _, _)

\* a walk that also rewrites the strings under every key of a mapping
WalkValues_scalars(obj, old_name, new_name, rmap) ==
    [obj EXCEPT !.items = [i \in DOMAIN obj.items |->
        IF obj.items[i].t \in {"map", "seq"}
        THEN update_structure(obj.items[i], old_name, new_name, rmap)
        ELSE UpdateScalar(obj.items[i], old_name, new_name, rmap)]]

\* lines 221-223: the values of a mapping that are mappings or sequences
WalkValues(obj, old_name, new_name, rmap) ==
    [obj EXCEPT !.items = [i \in DOMAIN obj.items |->
        IF obj.items[i].t \in {"map", "seq"}
        THEN update_structure(obj.items[i], old_name, new_name, rmap)
        ELSE obj.items[i]]]

\* lines 226-233: the items of a sequence that are mappings or strings
WalkItems(obj, old_name, new_name, rmap) ==
    [obj EXCEPT !.items = [i \in DOMAIN obj.items |->
        IF obj.items[i].t = "map"
        THEN update_structure(obj.items[i], old_name, new_name, rmap)
        ELSE UpdateScalar(obj.items[i], old_name, new_name, rmap)]]

update_structure(obj, old_name, new_name, rmap) ==
    IF obj.t = "map"
    THEN WalkValues(UpdateFields(obj, old_name, new_name, rmap),
                    old_name, new_name, rmap)
    ELSE IF obj.t = "seq" THEN WalkItems(obj, old_name, new_name, rmap)
    ELSE obj

IsForeign_never(body) == FALSE

\* line 145: the document looks like a Kubernetes manifest
IsForeign(body) == body.foreign

ShouldWrite_ignoring_dry_run(modified, dry) == modified

\* line 238: the file is written
ShouldWrite(modified, dry) == modified /\ ~dry

\* a write of every parsed document in a live call, changed or not
WriteBack_always(body, before, after, dry) ==
    [modified |-> after # before,
     body     |-> IF ~dry THEN safe_dump(after) ELSE body]

\* lines 238-243: the file is written when a reference changed
WriteBack(body, before, after, dry) ==
    [modified |-> after # before,
     body     |-> IF ShouldWrite(after # before, dry) THEN safe_dump(after) ELSE body]

\* lines 155-243 on the parsed tree
RewriteParsed(body, data, old_name, new_name, dry, rmap) ==
    WriteBack(body, data,
              update_structure(update_dependencies(data, old_name, new_name, rmap),
                               old_name, new_name, rmap),
              dry)

\* an update_yaml_file that goes on with the text of a document that does
\* not parse
update_yaml_file_parse_anyway(body, old_name, new_name, dry, rmap) ==
    IF ~Mentions(body, old_name) THEN [modified |-> FALSE, body |-> body]
    ELSE IF IsForeign(body) THEN [modified |-> FALSE, body |-> body]
    ELSE RewriteParsed(body, safe_load(body.data), old_name, new_name, dry, rmap)

\* update_yaml_file on the content of one file: what it returns and the
\* content of the file afterwards
update_yaml_file(body, old_name, new_name, dry, rmap) ==
    IF ~Mentions(body, old_name) THEN [modified |-> FALSE, body |-> body]
    ELSE IF IsForeign(body) THEN [modified |-> FALSE, body |-> body]
    ELSE IF ~body.parseable THEN [modified |-> FALSE, body |-> body]
    ELSE RewriteParsed(body, safe_load(body.data), old_name, new_name, dry, rmap)

\* lines 412-414 and 432-434: one file against every entry of the rename
\* map, in the order of the map; each call reads the file again
RECURSIVE update_each(_, _, _, _)

ThenRest(first, entries, dry, rmap) ==
    [modified |-> first.modified \/ update_each(first.body, entries, dry, rmap).modified,
     body     |-> update_each(first.body, entries, dry, rmap).body]

update_each(body, entries, dry, rmap) ==
    IF Len(entries) = 0 THEN [modified |-> FALSE, body |-> body]
    ELSE ThenRest(update_yaml_file(body, entries[1][1], entries[1][2], dry, rmap),
                  Tail(entries), dry, rmap)

----------------------------------------------------------------------------
(* The rename map builder, lines 307-362 *)

\* what  <word>:\s+([a-z0-9_\-./]+)  captures after a key that ends with word
TokenAfter(val) ==
    LET tok == IF val.t = "str" /\ ~val.q THEN LongestPrefixIn(val.s, RefChars)
               ELSE IF val.t = "map" /\ Len(val.keys) > 0
                    THEN LongestPrefixIn(val.keys[1], RefChars)
               ELSE IF val.t = "seq" /\ Len(val.items) > 0 THEN <<"-">>
               ELSE <<>>
    IN  IF Len(tok) = 0 THEN <<>> ELSE <<tok>>

\* re.findall of the pattern over the text, in the order of the text
RECURSIVE FindAll(_, _)
FindAll(v, word) ==
    IF v.t = "map"
    THEN Flatten([i \in DOMAIN v.items |->
             (IF IsSuffix(word, v.keys[i]) THEN TokenAfter(v.items[i]) ELSE <<>>)
                 \o FindAll(v.items[i], word)])
    ELSE IF v.t = "seq"
    THEN Flatten([i \in DOMAIN v.items |-> FindAll(v.items[i], word)])
    ELSE <<>>

\* lines 342-350
role_patterns(body) ==
    FindAll(body.data, K_role)
        \o (IF Mentions(body, K_import_role) \/ Mentions(body, K_include_role)
            THEN FindAll(body.data, K_name) ELSE <<>>)

\* a scan that adds every path segment of every reference
InvalidParts_all(body) ==
    Flatten([i \in DOMAIN role_patterns(body) |->
                SplitOn(role_patterns(body)[i], "/")])

\* lines 352-360: the path segments of the references of one file that the
\* scan would add, in order
InvalidParts(body) ==
    LET parts == Flatten([i \in DOMAIN role_patterns(body) |->
                             SplitOn(role_patterns(body)[i], "/")])
    IN  SelectSeq(parts, LAMBDA part : "-" \in Range(part) /\ ~is_valid_role_name(part))

\* rename_map[name] = fix_role_name(name) for each name of names not yet a key
RECURSIVE AddMissing(_, _)
AddMissing(rmap, names) ==
    IF Len(names) = 0 THEN rmap
    ELSE AddMissing(IF DictHas(rmap, names[1]) THEN rmap
                    ELSE Append(rmap, <<names[1], fix_role_name(names[1])>>),
                    Tail(names))

\* lines 309-313
RECURSIVE MapOfRoles(_, _)
MapOfRoles(rmap, found) ==
    IF Len(found) = 0 THEN rmap
    ELSE MapOfRoles(IF ~is_valid_role_name(found[1].name)
                    THEN DictPut(rmap, found[1].name, fix_role_name(found[1].name))
                    ELSE rmap,
                    Tail(found))

IsYamlName(name) == IsSuffix(Ext_yml, name) \/ IsSuffix(Ext_yaml, name)

\* Path(root).rglob("*.yml") + Path(root).rglob("*.yaml"), the files among them
YamlFiles(f) == {p \in DOMAIN f : f[p].kind = "file" /\ IsYamlName(BaseName(p))}

\* the rename maps main() can build: the directory listing and the file
\* listing come in an arbitrary order
build_rename_map(f, found) ==
    LET fromRoles == MapOfRoles(<<>>, found)
        badDirs   == IF Exists(f, roles_dir)
                     THEN {BaseName(e) : e \in {c \in Children(f, roles_dir) :
                               IsDir(f, c) /\ ~is_valid_role_name(BaseName(c))}}
                     ELSE {}
        scanned   == {p \in YamlFiles(f) : Len(InvalidParts(f[p].body)) > 0}
    IN  {AddMissing(AddMissing(fromRoles, dirOrder),
                    Flatten([i \in DOMAIN fileOrder |-> InvalidParts(f[fileOrder[i]].body)])) :
            dirOrder \in Orderings(badDirs), fileOrder \in Orderings(scanned)}

----------------------------------------------------------------------------
(* rename_role and the phases of main() *)

\* a rename_role that reports the plain move and leaves the directory where
\* it is
rename_role_move_undone(f, role_path, new_name, dry) ==
    LET new_path == Parent(role_path) \o <<new_name>>
    IN  IF Exists(f, new_path) \/ IsLink(f, new_path)
        THEN IF IsLink(f, new_path)
             THEN [ok |-> TRUE, how |-> "relink",
                   fs |-> IF dry THEN f
                          ELSE Move(Remove(f, new_path), role_path, new_path)]
             ELSE IF IsDir(f, new_path)
             THEN [ok |-> TRUE, how |-> "rmtree",
                   fs |-> IF dry THEN f ELSE RmTree(f, role_path)]
             ELSE [ok |-> FALSE, how |-> "fail", fs |-> f]
        ELSE [ok |-> TRUE, how |-> "move", fs |-> f]

\* rename_role(role_path, old_name, new_name, dry_run): what it returns and
\* the tree afterwards
rename_role(f, role_path, new_name, dry) ==
    LET new_path == Parent(role_path) \o <<new_name>>
    IN  IF Exists(f, new_path) \/ IsLink(f, new_path)
        THEN IF IsLink(f, new_path)
             THEN [ok |-> TRUE, how |-> "relink",
                   fs |-> IF dry THEN f
                          ELSE Move(Remove(f, new_path), role_path, new_path)]
             ELSE IF IsDir(f, new_path)
             THEN [ok |-> TRUE, how |-> "rmtree",
                   fs |-> IF dry THEN f ELSE RmTree(f, role_path)]
             ELSE [ok |-> FALSE, how |-> "fail", fs |-> f]
        ELSE [ok |-> TRUE, how |-> "move",
              fs |-> IF dry THEN f ELSE Move(f, role_path, new_path)]

\* lines 382-389: the path of the role after the renames of its parents
current_path_of(role_path, renamed) ==
    LET hits == {i \in DOMAIN renamed :
                    IsPrefix(renamed[i][1], role_path)
                        /\ Len(role_path) > Len(renamed[i][1])}
    IN  IF hits = {} THEN role_path
        ELSE LET i == CHOOSE h \in hits : \A g \in hits : h <= g
             IN  Rebase(role_path, renamed[i][1], renamed[i][2])

\* Path(root).rglob("meta/main.yml")
MetaFiles(f) ==
    {p \in DOMAIN f : /\ f[p].kind = "file"
                      /\ Len(p) >= 2
                      /\ p[Len(p)] = N_main_yml
                      /\ p[Len(p) - 1] = N_meta}

\* lines 424-430: "meta/main.yml" in playbook_path, or one of '/tests/',
\* '/files/', '/templates/', '/library/' in it
SkippedPlaybook(p) ==
    \/ \E i \in 1..(Len(p) - 1) :
           IsSuffix(N_meta, p[i]) /\ IsPrefix(N_main_yml, p[i + 1])
    \/ \E i \in 1..(Len(p) - 1) :
           p[i] \in {N_tests, N_files, N_templates, N_library}

\* line 301
Scan ==
    /\ pc = "start"
    /\ \E found \in find_roles(fs) :
          /\ roles' = found
          /\ pc' = IF Len(found) = 0 THEN "done" ELSE "map"
    /\ UNCHANGED <<fs, dry_run, rename_map, idx, renamed_paths, todo, run,
                   fs0, start_fs, log>>
    /\ UNCHANGED <<arg, calls>>

\* lines 307-366
BuildMap ==
    /\ pc = "map"
    /\ \E rmap \in build_rename_map(fs, roles) :
          /\ rename_map' = rmap
          /\ pc' = IF Len(rmap) = 0 THEN "done" ELSE "exec"
    /\ idx' = 1
    /\ UNCHANGED <<fs, dry_run, roles, renamed_paths, todo, run, fs0, start_fs, log>>
    /\ UNCHANGED <<arg, calls>>

\* a loop that ends the run at the first rename that fails
ExecOutcome_abort(ok) == IF ok THEN "exec" ELSE "done"

\* a loop that goes back to the building of the rename map when a rename
\* fails
ExecOutcome_restart(ok) == IF ok THEN "exec" ELSE "map"

\* lines 400-404: whether the rename succeeded or not, the loop goes on
ExecOutcome(ok) == "exec"

\* lines 377-404: one iteration of the loop over roles
ExecStep ==
    /\ pc = "exec"
    /\ idx <= Len(roles)
    /\ LET role_path == roles[idx].path
           role_name == roles[idx].name
       IN  IF ~DictHas(rename_map, role_name)
           THEN /\ pc' = "exec"
                /\ UNCHANGED <<fs, renamed_paths, log>>
           ELSE LET new_name     == DictGet(rename_map, role_name)
                    current_path == current_path_of(role_path, renamed_paths)
                    new_path     == Parent(current_path) \o <<new_name>>
                    res == rename_role(fs, current_path, new_name, dry_run)
                IN  IF ~Exists(fs, current_path)
                    THEN /\ log' = log \cup {[ev |-> "stale", id |-> 0]}
                         /\ pc' = "exec"
                         /\ UNCHANGED <<fs, renamed_paths>>
                    ELSE /\ fs' = res.fs
                         /\ renamed_paths' =
                                IF res.ok THEN DictPut(renamed_paths, role_path, new_path)
                                ELSE renamed_paths
                         /\ log' = log \cup {[ev |-> res.how, id |-> fs[current_path].id]}
                         /\ pc' = ExecOutcome(res.ok)
    /\ idx' = idx + 1
    /\ UNCHANGED <<dry_run, roles, rename_map, todo, run, fs0, start_fs>>
    /\ UNCHANGED <<arg, calls>>

\* line 408: the loop over roles is over, the meta files are listed
ExecDone ==
    /\ pc = "exec"
    /\ idx > Len(roles)
    /\ pc' = "meta"
    /\ todo' = MetaFiles(fs)
    /\ log' = log \cup {[ev |-> "meta", id |-> 0]}
    /\ UNCHANGED <<fs, dry_run, roles, rename_map, idx, renamed_paths, run,
                   fs0, start_fs>>
    /\ UNCHANGED <<arg, calls>>

\* What the run did and reported, for the properties below.  Of the
\* executor: relink, rmtree, move (the branch rename_role took, carried out
\* or, in a dry run, only reported), fail, stale.  Of the rewriter: updated
\* (update_yaml_file returned True), write (the content of the file changed).
\* Of the cleanup: removed.  meta, play, sweep: the phase was entered.

\* the body of both rewriter loops on the file at p
RewriteFile(p) ==
    LET res == update_each(fs[p].body, rename_map, dry_run, rename_map)
    IN  /\ fs' = [fs EXCEPT ![p].body = res.body]
        /\ log' = log \cup (IF res.modified
                              THEN {[ev |-> "updated", id |-> fs[p].id]} ELSE {})
                       \cup (IF res.body # fs[p].body
                              THEN {[ev |-> "write", id |-> fs[p].id]} ELSE {})
        /\ todo' = todo \ {p}

\* lines 410-414: one meta/main.yml
MetaStep ==
    /\ pc = "meta"
    /\ \E p \in todo : RewriteFile(p)
    /\ UNCHANGED <<dry_run, pc, roles, rename_map, idx, renamed_paths, run,
                   fs0, start_fs>>
    /\ UNCHANGED <<arg, calls>>

\* line 418: the meta files are done, the playbooks are listed
MetaDone ==
    /\ pc = "meta"
    /\ todo = {}
    /\ pc' = "play"
    /\ todo' = YamlFiles(fs)
    /\ log' = log \cup {[ev |-> "play", id |-> 0]}
    /\ UNCHANGED <<fs, dry_run, roles, rename_map, idx, renamed_paths, run,
                   fs0, start_fs>>
    /\ UNCHANGED <<arg, calls>>

\* lines 420-434: one playbook
PlayStep ==
    /\ pc = "play"
    /\ \E p \in todo :
          IF SkippedPlaybook(p)
          THEN todo' = todo \ {p} /\ UNCHANGED <<fs, log>>
          ELSE RewriteFile(p)
    /\ UNCHANGED <<dry_run, pc, roles, rename_map, idx, renamed_paths, run,
                   fs0, start_fs>>
    /\ UNCHANGED <<arg, calls>>

PlayDone ==
    /\ pc = "play"
    /\ todo = {}
    /\ pc' = "sweep"
    /\ log' = log \cup {[ev |-> "sweep", id |-> 0]}
    /\ UNCHANGED <<fs, dry_run, roles, rename_map, idx, renamed_paths, todo, run,
                   fs0, start_fs>>
    /\ UNCHANGED <<arg, calls>>

\* line 447: the directory has a sibling named with underscores
HasValidVersion(f, entry) ==
    Exists(f, Parent(entry) \o
               <<[i \in DOMAIN BaseName(entry) |->
                     IF BaseName(entry)[i] = "-" THEN "_" ELSE BaseName(entry)[i]]>>)

\* lines 441-451: the directories the final cleanup removes
SweepVictims(f) ==
    IF ~Exists(f, roles_dir) THEN {}
    ELSE {e \in Children(f, roles_dir) :
             /\ IsDir(f, e)
             /\ "-" \in Range(BaseName(e))
             /\ HasValidVersion(f, e)}

\* lines 436-457
Sweep ==
    /\ pc = "sweep"
    /\ LET victims == SweepVictims(fs)
       IN  /\ fs' = IF dry_run THEN fs
                    ELSE Restrict(fs, DOMAIN fs \ UNION {Under(fs, e) : e \in victims})
           /\ log' = log \cup {[ev |-> "removed", id |-> fs[e].id] : e \in victims}
    /\ pc' = "done"
    /\ UNCHANGED <<dry_run, roles, rename_map, idx, renamed_paths, todo, run,
                   fs0, start_fs>>
    /\ UNCHANGED <<arg, calls>>

MaxRuns == 2

\* main() is run again on the tree the last live run left
Rerun ==
    /\ pc = "done"
    /\ ~dry_run
    /\ run < MaxRuns
    /\ pc' = "start"
    /\ run' = run + 1
    /\ roles' = <<>>
    /\ rename_map' = <<>>
    /\ idx' = 1
    /\ renamed_paths' = <<>>
    /\ todo' = {}
    /\ log' = {}
    /\ start_fs' = fs
    /\ UNCHANGED <<fs, dry_run, fs0>>
    /\ UNCHANGED <<arg, calls>>

Next ==
    \/ Scan
    \/ BuildMap
    \/ ExecStep
    \/ ExecDone
    \/ MetaStep
    \/ MetaDone
    \/ PlayStep
    \/ PlayDone
    \/ Sweep
    \/ Rerun

----------------------------------------------------------------------------
(* The trees main() is run on *)

N_hy        == <<"a","-","b">>          \* a role name with a hyphen
N_us        == <<"a","_","b">>          \* its normalised form
N_ns        == <<"x","-","y">>          \* a directory that groups roles
N_ns_us     == <<"x","_","y">>
N_Tasks     == <<"T","a","s","k","s">>
N_Hy        == <<"A","-","b">>
N_playbooks == <<"p","l","a","y","b","o","o","k","s">>
N_site_yml  == <<"s","i","t","e",".","y","m","l">>
R_absent    == <<"k","-","n">>          \* a role no directory holds
R_nested    == N_ns \o <<"/">> \o N_hy
R_dotted    == <<"c",".">> \o N_hy
S_all       == <<"a","l","l">>

At(path, kind, id, body) ==
    [path |-> path, node |-> [kind |-> kind, id |-> id, body |-> body]]

DirAt(path, id)  == At(path, "dir", id, NoBody)
FileAt(path, id) == At(path, "file", id, NoBody)
LinkAt(path, id) == At(path, "link", id, NoBody)

\* a role: a directory with a tasks directory
RoleAt(path, id) == {DirAt(path, id), DirAt(path \o <<N_tasks>>, id + 1)}

\* a role that also carries meta/main.yml
MetaAt(path, id, body) ==
    {DirAt(path \o <<N_meta>>, id + 2),
     At(path \o <<N_meta, N_main_yml>>, "file", id + 3, body)}

TreeOf(entries) ==
    [p \in {e.path : e \in entries} |-> (CHOOSE e \in entries : e.path = p).node]

RoleItem(ref) == MapV(<<K_role>>, <<ref>>)

\* the contents of roles/a-b/meta/main.yml
MetaBodies ==
    {Body(FALSE, TRUE, MapV(<<K_dependencies>>, <<SeqV(<<RoleItem(Str(R_nested))>>)>>)),
     Body(FALSE, TRUE, MapV(<<K_dependencies>>, <<SeqV(<<Str(R_absent)>>)>>)),
     Body(FALSE, TRUE, MapV(<<K_dependencies>>, <<SeqV(<<RoleItem(Str(R_absent))>>)>>)),
     Body(TRUE,  TRUE, MapV(<<K_dependencies>>, <<SeqV(<<RoleItem(Str(N_hy))>>)>>)),
     Body(FALSE, FALSE, MapV(<<K_dependencies>>, <<SeqV(<<RoleItem(Str(N_hy))>>)>>))}

\* the contents of playbooks/site.yml
PlayBodies ==
    {Body(FALSE, TRUE,  SeqV(<<RoleItem(Str(N_hy))>>)),
     Body(FALSE, TRUE,  SeqV(<<RoleItem(QStr(R_absent)), RoleItem(Str(N_hy))>>)),
     Body(TRUE,  TRUE,  SeqV(<<RoleItem(Str(N_hy))>>)),
     Body(FALSE, FALSE, SeqV(<<RoleItem(Str(N_hy))>>)),
     Body(FALSE, TRUE,  SeqV(<<MapV(<<K_hosts, K_roles>>,
                                    <<Str(S_all), SeqV(<<Str(N_hy), Str(R_absent)>>)>>)>>)),
     Body(FALSE, TRUE,  SeqV(<<MapV(<<K_include_role>>,
                                    <<MapV(<<K_name>>, <<Str(R_nested)>>)>>)>>)),
     Body(FALSE, TRUE,  SeqV(<<RoleItem(Str(R_dotted))>>))}

\* roles/a-b
TopHyphen ==
    {{}, RoleAt(<<N_roles, N_hy>>, 10)}
        \cup {RoleAt(<<N_roles, N_hy>>, 10) \cup MetaAt(<<N_roles, N_hy>>, 10, b) :
                 b \in MetaBodies}

\* roles/a_b
TopUnderscore ==
    {{}, RoleAt(<<N_roles, N_us>>, 20),
     {FileAt(<<N_roles, N_us>>, 20)}, {LinkAt(<<N_roles, N_us>>, 20)}}

\* roles/x-y and what it holds
NsDir   == {DirAt(<<N_roles, N_ns>>, 30)}
NsRole  == RoleAt(<<N_roles, N_ns>>, 30)
InHy    == RoleAt(<<N_roles, N_ns, N_hy>>, 40)
InUs    == RoleAt(<<N_roles, N_ns, N_us>>, 50)
InFile  == {FileAt(<<N_roles, N_ns, N_us>>, 50)}
InTasks == RoleAt(<<N_roles, N_ns, N_Tasks>>, 70)

Namespace ==
    {{}, NsDir, NsDir \cup InHy, NsDir \cup InHy \cup InUs, NsDir \cup InHy \cup InFile,
     NsDir \cup InTasks,
     NsRole, NsRole \cup InHy, NsRole \cup InUs, NsRole \cup InHy \cup InUs,
     NsRole \cup InHy \cup InFile}

\* roles/x_y
NsUnderscore == {{}, {DirAt(<<N_roles, N_ns_us>>, 60)}}

\* playbooks/site.yml
Playbook ==
    {{}} \cup {{At(<<N_playbooks, N_site_yml>>, "file", 3, b)} : b \in PlayBodies}

\* roles/a-b beside roles/A-b: two roles whose names have the same fixed name
Siblings == RoleAt(<<N_roles, N_hy>>, 10) \cup RoleAt(<<N_roles, N_Hy>>, 80)

InitTrees ==
    {TreeOf({DirAt(<<N_roles>>, 1), DirAt(<<N_playbooks>>, 2)}
                \cup a \cup b \cup n \cup u \cup pl) :
        a \in TopHyphen, b \in TopUnderscore, n \in Namespace,
        u \in NsUnderscore, pl \in Playbook}
    \cup
    {TreeOf({DirAt(<<N_roles>>, 1), DirAt(<<N_playbooks>>, 2)} \cup Siblings \cup pl) :
        pl \in Playbook}

Init ==
    /\ fs \in InitTrees
    /\ dry_run \in BOOLEAN
    /\ pc = "start"
    /\ roles = <<>>
    /\ rename_map = <<>>
    /\ idx = 1
    /\ renamed_paths = <<>>
    /\ todo = {}
    /\ run = 1
    /\ fs0 = fs
    /\ start_fs = fs
    /\ log = {}
    /\ arg = <<>>
    /\ calls = <<>>

Spec == Init /\ [][Next]_vars

----------------------------------------------------------------------------
(* The functions on names called on their own, on any string *)

MaxShortLen == 3
MaxCalls    == 2

\* one character of each kind: lowercase, underscore, digit, uppercase,
\* hyphen, dot, slash, blank, line break
ShortChars == {"a", "_", "1", "A", "-", ".", "/", " ", NL}

\* the strings over chars of length at most n
Strings(chars, n) == UNION {[1..k -> chars] : k \in 0..n}

\* strings around the longest valid length: letters only, a digit first, a
\* line break last
LongNames ==
    LET As(n) == [i \in 1..n |-> "a"]
    IN  UNION {{As(n), <<"1">> \o As(n - 1), As(n - 1) \o <<NL>>} :
                  n \in (MaxNameLen - 1)..(MaxNameLen + 2)}

NameInputs == Strings(ShortChars, MaxShortLen) \cup LongNames

FnInit ==
    /\ arg \in NameInputs
    /\ calls = <<>>
    /\ pc = "call"
    /\ fs = <<>>
    /\ dry_run = FALSE
    /\ roles = <<>>
    /\ rename_map = <<>>
    /\ idx = 1
    /\ renamed_paths = <<>>
    /\ todo = {}
    /\ run = 1
    /\ fs0 = fs
    /\ start_fs = fs
    /\ log = {}

\* is_valid_role_name(arg)
CallIsValid ==
    /\ pc = "call"
    /\ Len(calls) < MaxCalls
    /\ calls' = Append(calls, [fn    |-> "is_valid_role_name",
                               arg   |-> arg,
                               valid |-> is_valid_role_name(arg),
                               fixed |-> <<>>])
    /\ UNCHANGED <<arg, fs, dry_run, pc, roles, rename_map, idx, renamed_paths,
                   todo, run, fs0, start_fs, log>>

\* arg = fix_role_name(arg): the result is the argument of the next call
CallFix ==
    /\ pc = "call"
    /\ Len(calls) < MaxCalls
    /\ calls' = Append(calls, [fn    |-> "fix_role_name",
                               arg   |-> arg,
                               valid |-> FALSE,
                               fixed |-> fix_role_name(arg)])
    /\ arg' = fix_role_name(arg)
    /\ UNCHANGED <<fs, dry_run, pc, roles, rename_map, idx, renamed_paths,
                   todo, run, fs0, start_fs, log>>

FnNext ==
    \/ CallIsValid
    \/ CallFix

FnSpec == FnInit /\ [][FnNext]_vars

----------------------------------------------------------------------------
(* The two scanners called on their own: find_roles of fix_role_name.py and *)
(* find_roles of fix_role_readme.py                                         *)

N_defaults  == <<"d","e","f","a","u","l","t","s">>
N_vars      == <<"v","a","r","s">>
N_handlers  == <<"h","a","n","d","l","e","r","s">>
N_molecule  == <<"m","o","l","e","c","u","l","e">>
N_main_yaml == <<"m","a","i","n",".","y","a","m","l">>

\* fix_role_readme.py, lines 42-43
skip_dirs == {N_meta, N_tasks, N_handlers, N_defaults, N_vars, N_files,
              N_templates, N_library, N_molecule, N_tests}

\* Path(roles_dir).rglob("*"): everything below roles/
BelowRoles(f) == Under(f, roles_dir) \ {roles_dir}

\* fix_role_readme.py, lines 46-55: the parent of the parent of each
\* meta/main.yml below roles/
readme_meta_roles(f) ==
    {Parent(Parent(p)) : p \in {q \in BelowRoles(f) :
        /\ BaseName(q) = N_main_yml
        /\ BaseName(Parent(q)) = N_meta}}

\* fix_role_readme.py, lines 58-72: the parent of each tasks directory that
\* holds main.yml or main.yaml
readme_tasks_roles(f) ==
    {Parent(p) : p \in {q \in BelowRoles(f) :
        /\ IsDir(f, q)
        /\ BaseName(q) = N_tasks
        /\ Exists(f, q \o <<N_main_yml>>) \/ Exists(f, q \o <<N_main_yaml>>)}}

\* fix_role_readme.py, lines 89-94
has_subroles(f, entry) ==
    \E item \in Children(f, entry) :
        /\ IsDir(f, item)
        /\ BaseName(item) \notin skip_dirs
        /\ Exists(f, item \o <<N_tasks>>) \/ Exists(f, item \o <<N_meta>>)

\* fix_role_readme.py, lines 75-99: the parent roles
readme_parent_roles(f) ==
    {entry \in BelowRoles(f) :
        /\ IsDir(f, entry)
        /\ BaseName(entry) \notin skip_dirs
        /\ \/ Exists(f, entry \o <<N_defaults>>)
           \/ Exists(f, entry \o <<N_vars>>)
           \/ has_subroles(f, entry)}

\* fix_role_readme.find_roles(root): the role paths it returns; it returns
\* them sorted by path, each once
readme_find_roles(f) ==
    IF ~Exists(f, roles_dir) THEN {}
    ELSE readme_meta_roles(f) \cup readme_tasks_roles(f) \cup readme_parent_roles(f)

N_play == <<"p","l","a","y">>

\* roles/a-b: absent, or a directory with one of the marker children
ScanTop ==
    LET d == <<N_roles, N_hy>>
    IN  {{}, {DirAt(d, 10)}}
            \cup {{DirAt(d, 10), DirAt(d \o <<c>>, 11)} :
                     c \in {N_tasks, N_meta, N_defaults, N_vars}}
            \cup {{DirAt(d, 10), DirAt(d \o <<N_tasks>>, 11),
                   FileAt(d \o <<N_tasks, N_main_yml>>, 12)},
                  {DirAt(d, 10), DirAt(d \o <<N_meta>>, 11),
                   FileAt(d \o <<N_meta, N_main_yml>>, 12)}}

\* roles/x-y: absent, empty, or holding a directory that is itself a role
ScanNested ==
    LET d == <<N_roles, N_ns>>
    IN  {{}, {DirAt(d, 30)}}
            \cup {{DirAt(d, 30), DirAt(d \o <<n>>, 40),
                   DirAt(d \o <<n, N_tasks>>, 41)} : n \in {N_hy, N_files}}
            \cup {{DirAt(d, 30), DirAt(d \o <<N_hy>>, 40),
                   DirAt(d \o <<N_hy, N_tasks>>, 41),
                   FileAt(d \o <<N_hy, N_tasks, N_main_yaml>>, 42)}}

\* roles/tests, a directory with a reserved name
ScanReserved ==
    LET d == <<N_roles, N_tests>>
    IN  {{}, {DirAt(d, 50), DirAt(d \o <<N_tasks>>, 51)},
         {DirAt(d, 50), DirAt(d \o <<N_defaults>>, 51)},
         {DirAt(d, 50), DirAt(d \o <<N_play>>, 51),
          DirAt(d \o <<N_play, N_tasks>>, 52)}}

ScanTrees ==
    {TreeOf({DirAt(<<N_roles>>, 1)} \cup a \cup n \cup r) :
        a \in ScanTop, n \in ScanNested, r \in ScanReserved}

\* nothing denied, or one directory below roles/ denied in one of the ways
Denials(f) ==
    {NoDenial} \cup {[path |-> d, mode |-> m] :
                        d \in {q \in BelowRoles(f) : IsDir(f, q)},
                        m \in {"no_read", "no_search", "none"}}

ScanInit ==
    /\ fs \in ScanTrees
    /\ arg \in Denials(fs)
    /\ calls = <<>>
    /\ pc = "call"
    /\ dry_run = FALSE
    /\ roles = <<>>
    /\ rename_map = <<>>
    /\ idx = 1
    /\ renamed_paths = <<>>
    /\ todo = {}
    /\ run = 1
    /\ fs0 = fs
    /\ start_fs = fs
    /\ log = {}

\* fix_role_name.find_roles(root)
CallFindRoles ==
    /\ pc = "call"
    /\ Len(calls) < MaxCalls
    /\ \E found \in find_roles(fs) :
          calls' = Append(calls, [fn    |-> "fix_role_name.find_roles",
                                  found |-> found,
                                  paths |-> {found[i].path : i \in DOMAIN found}])
    /\ UNCHANGED <<arg, fs, dry_run, pc, roles, rename_map, idx, renamed_paths,
                   todo, run, fs0, start_fs, log>>

\* fix_role_readme.find_roles(root)
CallReadmeFindRoles ==
    /\ pc = "call"
    /\ Len(calls) < MaxCalls
    /\ calls' = Append(calls, [fn    |-> "fix_role_readme.find_roles",
                               found |-> <<>>,
                               paths |-> readme_find_roles(fs)])
    /\ UNCHANGED <<arg, fs, dry_run, pc, roles, rename_map, idx, renamed_paths,
                   todo, run, fs0, start_fs, log>>

\* fix_role_name.find_roles(root) by a process that lacks the access arg
\* describes
CallFindRolesDenied ==
    /\ pc = "call"
    /\ Len(calls) < MaxCalls
    /\ \E found \in find_roles_with_errors(fs, arg) :
          calls' = Append(calls, [fn    |-> "find_roles with errors",
                                  found |-> found,
                                  paths |-> {found[i].path : i \in DOMAIN found}])
    /\ UNCHANGED <<arg, fs, dry_run, pc, roles, rename_map, idx, renamed_paths,
                   todo, run, fs0, start_fs, log>>

ScanNext ==
    \/ CallFindRoles
    \/ CallReadmeFindRoles
    \/ CallFindRolesDenied

ScanSpec == ScanInit /\ [][ScanNext]_vars

----------------------------------------------------------------------------
(* update_yaml_file called on its own, on documents of every shape *)

K_tags == <<"t","a","g","s">>
K_vars == <<"v","a","r","s">>

\* the parsed trees: the name a-b under the keys role and name, under
\* other keys, as a key, as an item of sequences under several keys and of
\* a sequence inside a sequence, and in the list of dependencies
RewData ==
    {SeqV(<<RoleItem(Str(N_hy))>>),
     SeqV(<<RoleItem(QStr(N_hy))>>),
     SeqV(<<MapV(<<K_hosts>>, <<Str(N_hy)>>)>>),
     SeqV(<<MapV(<<K_hosts, K_roles>>,
                 <<Str(N_hy), SeqV(<<Str(N_hy), Str(R_absent)>>)>>)>>),
     SeqV(<<MapV(<<K_hosts, K_tags>>, <<Str(S_all), SeqV(<<Str(N_hy)>>)>>)>>),
     SeqV(<<MapV(<<K_include_role>>, <<MapV(<<K_name>>, <<Str(R_nested)>>)>>)>>),
     SeqV(<<SeqV(<<Str(N_hy)>>)>>),
     SeqV(<<SeqV(<<RoleItem(Str(N_hy))>>)>>),
     SeqV(<<Str(R_dotted), Str(N_hy)>>),
     MapV(<<K_dependencies>>, <<SeqV(<<Str(N_hy)>>)>>),
     MapV(<<K_dependencies>>, <<SeqV(<<RoleItem(Str(R_nested))>>)>>),
     MapV(<<K_dependencies>>, <<SeqV(<<MapV(<<K_hosts>>, <<Str(N_hy)>>)>>)>>),
     MapV(<<K_vars>>, <<MapV(<<K_role, K_hosts>>, <<Str(N_hy), Str(N_hy)>>)>>),
     MapV(<<K_role>>, <<SeqV(<<Str(N_hy)>>)>>),
     MapV(<<N_hy>>, <<Str(S_all)>>),
     Str(N_hy)}

\* the files: each tree as a plain document, and one tree as a document
\* that looks foreign and as one that does not parse
RewDocs ==
    {Body(FALSE, TRUE, d) : d \in RewData}
        \cup {Body(TRUE, TRUE, SeqV(<<RoleItem(Str(N_hy))>>)),
              Body(FALSE, FALSE, SeqV(<<RoleItem(Str(N_hy))>>))}

RewMaps ==
    {<<<<N_hy, N_us>>>>,
     <<<<N_hy, N_us>>, <<N_ns, N_ns_us>>>>,
     <<<<R_absent, fix_role_name(R_absent)>>, <<N_hy, N_us>>>>,
     <<<<N_hy, N_us>>, <<R_dotted, fix_role_name(R_dotted)>>>>}

RewInit ==
    /\ arg \in RewDocs
    /\ dry_run \in BOOLEAN
    /\ rename_map \in RewMaps
    /\ calls = <<>>
    /\ pc = "call"
    /\ fs = <<>>
    /\ roles = <<>>
    /\ idx = 1
    /\ renamed_paths = <<>>
    /\ todo = {}
    /\ run = 1
    /\ fs0 = fs
    /\ start_fs = fs
    /\ log = {}

\* update_yaml_file(file_path, old_name, new_name, dry_run, rename_map) for
\* one entry of the rename map, on the file as the last call left it
CallUpdate ==
    /\ pc = "call"
    /\ Len(calls) < MaxCalls
    /\ \E i \in DOMAIN rename_map :
          LET res == update_yaml_file(arg, rename_map[i][1], rename_map[i][2],
                                      dry_run, rename_map)
          IN  /\ calls' = Append(calls, [fn       |-> "update_yaml_file",
                                         old_name |-> rename_map[i][1],
                                         before   |-> arg,
                                         after    |-> res.body,
                                         modified |-> res.modified])
              /\ arg' = res.body
    /\ UNCHANGED <<fs, dry_run, pc, roles, rename_map, idx, renamed_paths,
                   todo, run, fs0, start_fs, log>>

\* lines 412-414 and 432-434: update_yaml_file for every entry of the rename
\* map, the entries taken in one of the orders a dict can hold them in
CallUpdateEach ==
    /\ pc = "call"
    /\ Len(calls) < MaxCalls
    /\ \E entries \in Orderings(Range(rename_map)) :
          LET res == update_each(arg, entries, dry_run, rename_map)
          IN  /\ calls' = Append(calls, [fn       |-> "update_each",
                                         old_name |-> <<>>,
                                         before   |-> arg,
                                         after    |-> res.body,
                                         modified |-> res.modified])
              /\ arg' = res.body
    /\ UNCHANGED <<fs, dry_run, pc, roles, rename_map, idx, renamed_paths,
                   todo, run, fs0, start_fs, log>>

RewNext ==
    \/ CallUpdate
    \/ CallUpdateEach

RewSpec == RewInit /\ [][RewNext]_vars

----------------------------------------------------------------------------
(* update_role_reference called on its own, on references of every shape *)

MaxSegs == 3

\* the parts references are made of: a name that is a key of the map, a
\* name that is not, a name that starts like a key, another key
RefSegs == {N_hy, <<"c">>, N_hy \o <<"c">>, N_ns}

\* the parts joined with dots, and two references with a slash
RefValues ==
    {JoinWith(parts, ".") : parts \in UNION {[1..k -> RefSegs] : k \in 1..MaxSegs}}
        \cup {R_nested, N_ns \o <<"/">> \o R_dotted}

\* rename maps: names of roles, and a dotted name as the text scan adds it
RefMaps ==
    {<<<<N_hy, N_us>>>>,
     <<<<N_hy, N_us>>, <<N_ns, N_ns_us>>>>,
     <<<<N_hy, N_us>>, <<R_dotted, fix_role_name(R_dotted)>>>>}

RefInit ==
    /\ arg \in RefValues
    /\ rename_map \in RefMaps
    /\ calls = <<>>
    /\ pc = "call"
    /\ dry_run = FALSE
    /\ fs = <<>>
    /\ roles = <<>>
    /\ idx = 1
    /\ renamed_paths = <<>>
    /\ todo = {}
    /\ run = 1
    /\ fs0 = fs
    /\ start_fs = fs
    /\ log = {}

\* update_role_reference(role_ref) for one entry of the rename map, on the
\* reference as the last call left it
CallUpdateRef ==
    /\ pc = "call"
    /\ Len(calls) < MaxCalls
    /\ \E i \in DOMAIN rename_map :
          LET result == update_role_reference(arg, rename_map[i][1],
                                              rename_map[i][2], rename_map)
          IN  /\ calls' = Append(calls, [fn       |-> "update_role_reference",
                                         role_ref |-> arg,
                                         old_name |-> rename_map[i][1],
                                         new_name |-> rename_map[i][2],
                                         result   |-> result])
              /\ arg' = result
    /\ UNCHANGED <<fs, dry_run, pc, roles, rename_map, idx, renamed_paths,
                   todo, run, fs0, start_fs, log>>

RefNext == CallUpdateRef

RefSpec == RefInit /\ [][RefNext]_vars

----------------------------------------------------------------------------
(* Properties *)

Logged(ev) == \E e \in log : e.ev = ev

LoggedFor(ev, id) == [ev |-> ev, id |-> id] \in log

\* the content of the file or directory with this id in the tree f
NodesWithId(f, id) == {p \in DOMAIN f : f[p].id = id}

\* C7: with the dry-run flag set, the directory tree and the content of
\* every document stay as they were before the run, in every phase.
C7_DryRunMutatesNothing == dry_run => fs = fs0

\* a dry run has ended after the executor reported a rename, the rewriter an
\* update and the cleanup a removal
C7_Witness ==
    /\ dry_run
    /\ pc = "done"
    /\ Logged("move")
    /\ Logged("updated")
    /\ Logged("removed")

\* C8: a document that starts with a foreign-manifest marker keeps its
\* content, whatever the rename map holds, in the pass over the
\* meta/main.yml files and in the pass over the playbooks.
C8_ForeignDocumentKept ==
    \A p \in DOMAIN fs : \A p0 \in NodesWithId(fs0, fs[p].id) :
        fs0[p0].body.foreign => fs[p].body = fs0[p0].body

\* a live run has ended; a foreign meta/main.yml and a foreign playbook both
\* hold a role field whose value is a key of the rename map
C8_Witness ==
    /\ ~dry_run
    /\ pc = "done"
    /\ \E p \in MetaFiles(fs), q \in YamlFiles(fs) \ MetaFiles(fs) :
          /\ ~SkippedPlaybook(q)
          /\ fs[p].body.foreign
          /\ fs[q].body.foreign
          /\ \E k \in DictKeys(rename_map) :
                /\ k \in Range(FindAll(fs[p].body.data, K_role))
                /\ k \in Range(FindAll(fs[q].body.data, K_role))

\* the paths of the units find_roles discovers in the tree f
UnitPaths(f) == UNION {{found[i].path : i \in DOMAIN found} : found \in find_roles(f)}

\* the directories that are units of the tree f
UnitIds(f) == {f[p].id : p \in UnitPaths(f)}

C2_SecondRunChangesNothing == run >= 2 => fs = start_fs

\* the references of a document, in the order of the text: the scalars the
\* walk of update_structure visits, those under a key role or name and those
\* that are items of a sequence
RECURSIVE Refs(_)
Refs(v) ==
    IF v.t = "map"
    THEN Flatten([i \in DOMAIN v.items |->
             IF v.items[i].t = "str"
             THEN (IF v.keys[i] \in {K_role, K_name} THEN <<v.items[i].s>> ELSE <<>>)
             ELSE Refs(v.items[i])])
    ELSE IF v.t = "seq"
    THEN Flatten([i \in DOMAIN v.items |->
             IF v.items[i].t = "str" THEN <<v.items[i].s>>
             ELSE IF v.items[i].t = "map" THEN Refs(v.items[i])
             ELSE <<>>])
    ELSE <<>>

\* the path segments a reference names: those of a slash-qualified
\* reference, the part after the last dot of a dot-qualified one, the whole
\* of a bare one
RefSegments(ref) ==
    IF "/" \in Range(ref) THEN SplitOn(ref, "/")
    ELSE <<SplitOn(ref, ".")[Len(SplitOn(ref, "."))]>>

\* some directory below roles/ ends with the segments of the reference
Resolves(f, ref) ==
    \E p \in DOMAIN f :
        /\ IsDir(f, p)
        /\ IsPrefix(roles_dir, p)
        /\ Len(p) > Len(roles_dir)
        /\ IsSuffix(RefSegments(ref), SubSeq(p, Len(roles_dir) + 1, Len(p)))

\* C3 as stated, for the references the rewriter changed: after a complete
\* live run, a reference that named an existing directory before the run and
\* that the rewriter changed names a directory that exists.
C3_ChangedReferencesResolve ==
    (pc = "done" /\ ~dry_run) =>
        \A p \in DOMAIN fs : \A p0 \in NodesWithId(start_fs, fs[p].id) :
            \A i \in DOMAIN Refs(fs[p].body.data) :
                (/\ i \in DOMAIN Refs(start_fs[p0].body.data)
                 /\ Refs(start_fs[p0].body.data)[i] # Refs(fs[p].body.data)[i]
                 /\ Resolves(start_fs, Refs(start_fs[p0].body.data)[i]))
                    => Resolves(fs, Refs(fs[p].body.data)[i])

Processed(f, p) ==
    /\ p \in MetaFiles(f) \/ (p \in YamlFiles(f) /\ ~SkippedPlaybook(p))
    /\ ~f[p].body.foreign
    /\ f[p].body.parseable

\* the reference is the name, has it as a slash segment, or ends with a dot
\* and the name
HoldsName(ref, k) ==
    \/ k \in Range(SplitOn(ref, "/"))
    \/ "/" \notin Range(ref) /\ IsSuffix(<<".">> \o k, ref)

RenamesUnit ==
    /\ pc = "exec"
    /\ idx <= Len(roles)
    /\ fs' # fs
    /\ \E e \in log' \ log : e.ev \in {"move", "relink"}

\* the units discovered below the unit at position i
DescendantsOf(i) ==
    {j \in DOMAIN roles : /\ IsPrefix(roles[i].path, roles[j].path)
                          /\ Len(roles[j].path) > Len(roles[i].path)}

\* the unit at position j is where it was when the run started
AtPreRunPath(j) ==
    /\ roles[j].path \in DOMAIN fs
    /\ roles[j].path \in DOMAIN start_fs
    /\ fs[roles[j].path].id = start_fs[roles[j].path].id

\* C5 as stated: at the moment a unit is renamed, none of its discovered
\* descendants still carries its pre-run path.
C5_Original ==
    [][RenamesUnit => \A j \in DescendantsOf(idx) : ~AtPreRunPath(j)]_vars

\* C5: at the moment a unit is renamed, the executor has already been at
\* every discovered descendant of it; a descendant that still carries its
\* pre-run path has a name that is not in the rename map, or its rename
\* failed.
C5_DescendantsHandledFirst ==
    [][RenamesUnit =>
          \A j \in DescendantsOf(idx) :
              /\ j < idx
              /\ AtPreRunPath(j) =>
                    \/ ~DictHas(rename_map, roles[j].name)
                    \/ LoggedFor("fail", fs[roles[j].path].id)]_vars

\* the executor has renamed a unit and, before it, a unit discovered below it
C5_Witness ==
    /\ pc = "exec"
    /\ ~dry_run
    /\ \E i, j \in DOMAIN renamed_paths :
          /\ IsPrefix(renamed_paths[i][1], renamed_paths[j][1])
          /\ Len(renamed_paths[j][1]) > Len(renamed_paths[i][1])
          /\ j < i
          /\ \E p \in DOMAIN fs : IsPrefix(renamed_paths[i][2], p) /\ LoggedFor("move", fs[p].id)

\* the path rename_role computes for the unit at p
TargetOf(p) == Parent(p) \o <<fix_role_name(BaseName(p))>>

\* C6 as stated: for a unit with an invalid name whose target path is a real
\* directory when the run starts, after a complete live run the source
\* directory is gone and the target directory is there with everything it
\* held, each file and directory of it as it was.
C6_ConflictKeepsTarget ==
    (pc = "done" /\ ~dry_run) =>
        \A p \in UnitPaths(start_fs) :
            (~is_valid_role_name(BaseName(p)) /\ IsDir(start_fs, TargetOf(p))) =>
                /\ NodesWithId(fs, start_fs[p].id) = {}
                /\ \A q \in Under(start_fs, TargetOf(p)) :
                      \E q2 \in DOMAIN fs : fs[q2] = start_fs[q]

\* C9: a rename that fails does not end the run.  While the executor is in
\* its loop after a failure, its next step can be taken; the loop is left
\* only when the executor has been at every unit of the sequence; and when
\* the run has ended, the rewriter passes and the cleanup have been entered.
C9_FailureDoesNotAbort ==
    Logged("fail") =>
        /\ pc \in {"exec", "meta", "play", "sweep", "done"}
        /\ pc = "exec" => ENABLED (ExecStep \/ ExecDone)
        /\ pc # "exec" => idx > Len(roles) /\ Logged("meta")
        /\ pc \in {"sweep", "done"} => Logged("play")
        /\ pc = "sweep" => ENABLED Sweep
        /\ pc = "done" => Logged("sweep")

\* a run has ended in which a rename failed and the executor then renamed a
\* unit later in the sequence
C9_Witness ==
    /\ pc = "done"
    /\ Logged("sweep")
    /\ \E i, j \in DOMAIN roles :
          /\ i < j
          /\ LoggedFor("fail", start_fs[roles[i].path].id)
          /\ LoggedFor("move", start_fs[roles[j].path].id)

\* C10 as stated: a unit whose rename failed because a plain file occupies
\* its target is, at the end of a live run, still a directory of the name it
\* had, with the directories and files it held.
C10_FailedUnitRetained ==
    (pc = "done" /\ ~dry_run) =>
        \A e \in log : e.ev = "fail" =>
            \E p \in NodesWithId(fs, e.id) : \E p0 \in NodesWithId(start_fs, e.id) :
                /\ BaseName(p) = BaseName(p0)
                /\ \A q \in Under(start_fs, p0) :
                      /\ Rebase(q, p0, p) \in DOMAIN fs
                      /\ fs[Rebase(q, p0, p)].id = start_fs[q].id

\* the rule for a valid name: 2 to 55 characters, each a lowercase letter, a
\* digit or an underscore, the first not a digit
NameRule(name) ==
    /\ Len(name) >= 2
    /\ Len(name) <= 55
    /\ \A i \in DOMAIN name : name[i] \in NameChars
    /\ name[1] \notin Digits

\* C11 as stated: is_valid_role_name returns true exactly for the strings
\* of 2 to 55 characters that hold only lowercase letters, digits and
\* underscores and do not start with a digit.
C11_IsValidIffRule ==
    \A i \in DOMAIN calls :
        calls[i].fn = "is_valid_role_name" =>
            (calls[i].valid <=> NameRule(calls[i].arg))

\* C12: fix_role_name is idempotent: called on its own result it returns
\* that result, for every string (the empty string, strings of digits and
\* strings longer than 55 characters among them).
C12_FixIdempotent ==
    \A i, j \in DOMAIN calls :
        (/\ i < j
         /\ calls[i].fn = "fix_role_name"
         /\ calls[j].fn = "fix_role_name"
         /\ calls[j].arg = calls[i].fixed)
            => calls[j].fixed = calls[i].fixed

\* fix_role_name was called on a string of more than 55 characters that
\* starts with a digit, and then on its result, which differs from the string
C12_Witness ==
    /\ Len(calls) = 2
    /\ calls[1].fn = "fix_role_name"
    /\ calls[2].fn = "fix_role_name"
    /\ Len(calls[1].arg) > MaxNameLen
    /\ calls[1].arg[1] \in Digits
    /\ calls[2].arg = calls[1].fixed
    /\ calls[1].fixed # calls[1].arg

\* C13: every key of the rename map fails is_valid_role_name, every value
\* passes it and is fix_role_name of its key, and no key occurs twice,
\* whichever of the three sources added the entry.
C13_RenameMapInvariant ==
    \A i \in DOMAIN rename_map :
        /\ ~is_valid_role_name(rename_map[i][1])
        /\ is_valid_role_name(rename_map[i][2])
        /\ rename_map[i][2] = fix_role_name(rename_map[i][1])
        /\ \A j \in DOMAIN rename_map : rename_map[j][1] = rename_map[i][1] => j = i

\* the map is built and holds the name of a discovered unit, the name of a
\* directory of roles/ that is not a unit, and a name only a document holds
C13_Witness ==
    /\ pc = "exec"
    /\ \E u, d, t \in DictKeys(rename_map) :
          /\ \E i \in DOMAIN roles : roles[i].name = u
          /\ \A i \in DOMAIN roles : roles[i].name # d
          /\ roles_dir \o <<d>> \in DOMAIN fs
          /\ \A p \in DOMAIN fs : BaseName(p) # t
          /\ \E p \in YamlFiles(fs) : t \in Range(InvalidParts(fs[p].body))

\* the number of path components of the unit at position i below roles/
DepthOf(i) == Len(roles[i].path) - Len(roles_dir)

\* C14: the sequence find_roles returns is ordered deepest first: the depths
\* do not increase along it, and a unit comes before each discovered unit
\* that is an ancestor of it.
C14_DeepestFirst ==
    \A i, j \in DOMAIN roles :
        /\ i < j => DepthOf(i) >= DepthOf(j)
        /\ j \in DescendantsOf(i) => j < i

\* the scanner has returned a unit and, after it, a unit that holds it
C14_Witness ==
    /\ pc = "map"
    /\ \E i, j \in DOMAIN roles : j \in DescendantsOf(i) /\ DepthOf(j) > DepthOf(i)

\* the discovery rule as stated: a directory is a unit if it has a meta or
\* tasks child, or if its name is not a reserved one and it has a defaults
\* or vars child or holds a unit somewhere below it
RECURSIVE RuleUnit(_, _)
RuleUnit(f, d) ==
    /\ IsDir(f, d)
    /\ \/ IsRoleDir(f, d)
       \/ /\ BaseName(d) \notin skip_dirs
          /\ \/ Exists(f, d \o <<N_defaults>>)
             \/ Exists(f, d \o <<N_vars>>)
             \/ \E q \in Under(f, d) \ {d} : RuleUnit(f, q)

RuleUnits(f) == {d \in BelowRoles(f) : RuleUnit(f, d)}

\* C15 as stated: on every tree the scanner returns exactly the directories
\* below roles/ that the discovery rule makes units: those with a meta or
\* tasks child, and those not named with a reserved name that have a
\* defaults or vars child or hold a unit below them.
C15_ScannerFollowsRule ==
    \A i \in DOMAIN calls :
        calls[i].fn = "fix_role_name.find_roles" =>
            calls[i].paths = RuleUnits(fs)

\* C18 as stated: on every tree, the directories fix_role_readme.find_roles
\* returns are the directories fix_role_name.find_roles returns.
C18_ScannersAgree ==
    \A i, j \in DOMAIN calls :
        (/\ calls[i].fn = "fix_role_name.find_roles"
         /\ calls[j].fn = "fix_role_readme.find_roles")
            => calls[i].paths = calls[j].paths

\* the suffix a backup copy puts after the name of the document
BakMark == <<".","b","a","k",".">>

\* b is a backup copy of the document at p
IsBackupOf(f, b, p) ==
    /\ b \in DOMAIN f
    /\ f[b].kind = "file"
    /\ Parent(b) = Parent(p)
    /\ IsPrefix(BaseName(p) \o BakMark, BaseName(b))

\* C16 as stated: in a live run, every document the run has overwritten has
\* a timestamped backup copy beside it that holds the content the document
\* had before the run.
C16_BackupBeforeOverwrite ==
    ~dry_run =>
        \A p \in DOMAIN fs :
            LoggedFor("write", fs[p].id) =>
                \E b \in DOMAIN fs :
                    /\ IsBackupOf(fs, b, p)
                    /\ \E p0 \in NodesWithId(start_fs, fs[p].id) :
                          fs[b].body = start_fs[p0].body

\* The tree of the end-to-end scenario, with a-b for etcd-cluster, k-n for
\* kube-node and site.yml for cluster.yml: the role roles/a-b, whose
\* meta/main.yml lists k-n under dependencies (dep is the entry), and
\* playbooks/site.yml with roles: [a-b, k-n].
ScenarioTree(dep) ==
    TreeOf({DirAt(<<N_roles>>, 1), DirAt(<<N_playbooks>>, 2)}
               \cup RoleAt(<<N_roles, N_hy>>, 10)
               \cup MetaAt(<<N_roles, N_hy>>, 10,
                           Body(FALSE, TRUE, MapV(<<K_dependencies>>, <<SeqV(<<dep>>)>>)))
               \cup {At(<<N_playbooks, N_site_yml>>, "file", 3,
                        Body(FALSE, TRUE,
                             SeqV(<<MapV(<<K_hosts, K_roles>>,
                                         <<Str(S_all),
                                           SeqV(<<Str(N_hy), Str(R_absent)>>)>>)>>)))})

\* the two ways a dependency entry names a role: the name alone, or a
\* mapping with the key role
ScenarioDeps == {Str(R_absent), RoleItem(Str(R_absent))}

\* the scalars of a document
RECURSIVE ScalarsOf(_)
ScalarsOf(v) ==
    (IF v.t = "str" THEN {v.s} ELSE {})
        \cup UNION {ScalarsOf(v.items[i]) : i \in DOMAIN v.items}

ScalarsAt(f, p) == ScalarsOf(f[p].body.data)

\* C17 as stated: after a live run on the tree of the scenario, roles/a_b
\* is a directory and roles/a-b is gone, the playbook reads a_b where it
\* read a-b, and the dependency document and the playbook read k_n where
\* they read k-n.
C17_Scenario ==
    (/\ \E dep \in ScenarioDeps : fs0 = ScenarioTree(dep)
     /\ ~dry_run
     /\ run = 1
     /\ pc = "done")
        => /\ IsDir(fs, <<N_roles, N_us>>)
           /\ <<N_roles, N_hy>> \notin DOMAIN fs
           /\ <<N_roles, N_us, N_meta, N_main_yml>> \in DOMAIN fs
           /\ N_us \in ScalarsAt(fs, <<N_playbooks, N_site_yml>>)
           /\ N_hy \notin ScalarsAt(fs, <<N_playbooks, N_site_yml>>)
           /\ fix_role_name(R_absent) \in ScalarsAt(fs, <<N_playbooks, N_site_yml>>)
           /\ R_absent \notin ScalarsAt(fs, <<N_playbooks, N_site_yml>>)
           /\ fix_role_name(R_absent) \in ScalarsAt(fs, <<N_roles, N_us, N_meta, N_main_yml>>)
           /\ R_absent \notin ScalarsAt(fs, <<N_roles, N_us, N_meta, N_main_yml>>)

\* Where a node sits in a document: "top", the document itself; "field",
\* under a key role or name; "deps", under a key dependencies; "other",
\* under any other key; "dep_item", an item of a sequence under a key
\* dependencies; "item", an item of any other sequence; "inner", anywhere
\* in a sequence that is itself an item of a sequence.
UnderKey(at, key) ==
    IF at = "inner" THEN "inner"
    ELSE IF key \in {K_role, K_name} THEN "field"
    ELSE IF key = K_dependencies THEN "deps"
    ELSE "other"

ItemOf(at) ==
    IF at \in {"inner", "item", "dep_item"} THEN "inner"
    ELSE IF at = "deps" THEN "dep_item"
    ELSE "item"

\* where the trees v and w differ: the places of the scalars with another
\* value, and "shape" if they differ in anything else
RECURSIVE ChangedAt(_, _, _)
ChangedAt(v, w, at) ==
    IF v.t # w.t \/ v.keys # w.keys \/ Len(v.items) # Len(w.items) THEN {"shape"}
    ELSE IF v.t = "str" THEN (IF v.s = w.s THEN {} ELSE {at})
    ELSE IF v.t = "map"
    THEN UNION {ChangedAt(v.items[i], w.items[i], UnderKey(at, v.keys[i])) :
                   i \in DOMAIN v.items}
    ELSE UNION {ChangedAt(v.items[i], w.items[i], ItemOf(at)) : i \in DOMAIN v.items}

\* what a call of update_yaml_file changed in the document
CallChanged(c) == ChangedAt(safe_load(c.before.data), safe_load(c.after.data), "top")

\* the places of the scalars of v that are equal to name
RECURSIVE HeldAt(_, _, _)
HeldAt(v, name, at) ==
    IF v.t = "str" THEN (IF v.s = name THEN {at} ELSE {})
    ELSE IF v.t = "map"
    THEN UNION {HeldAt(v.items[i], name, UnderKey(at, v.keys[i])) : i \in DOMAIN v.items}
    ELSE UNION {HeldAt(v.items[i], name, ItemOf(at)) : i \in DOMAIN v.items}

\* C19 as stated: the rewriter changes only scalars directly under a key
\* role or name and scalar items of a sequence under a key dependencies;
\* every other scalar of the document, a string item of a sequence under
\* any other key among them, keeps its value.
C19_Original ==
    \A i \in DOMAIN calls :
        calls[i].fn = "update_yaml_file" =>
            CallChanged(calls[i]) \subseteq {"field", "dep_item"}

\* C19, amended: the rewriter changes only scalars directly under a key
\* role or name and string items of sequences, under whatever key the
\* sequence sits and at the top of the document; a scalar under any other
\* key, a key, a document that is one scalar, and everything inside a
\* sequence that is itself an item of a sequence keep their value, and the
\* shape of the document stays.
C19_ChangesOnlyFieldsAndItems ==
    \A i \in DOMAIN calls :
        calls[i].fn = "update_yaml_file" =>
            CallChanged(calls[i]) \subseteq {"field", "item", "dep_item"}

\* a live call changed an item of a sequence under a key other than
\* dependencies and kept the same name under another key
C19_Witness ==
    \E i \in DOMAIN calls :
        /\ calls[i].fn = "update_yaml_file"
        /\ ~dry_run
        /\ "item" \in CallChanged(calls[i])
        /\ "other" \in HeldAt(safe_load(calls[i].before.data), calls[i].old_name, "top")
        /\ "other" \in HeldAt(safe_load(calls[i].after.data), calls[i].old_name, "top")

\* C20: the rewriter writes a document only if a scalar of its parsed tree
\* changed: a call that leaves every scalar as it was leaves the file as it
\* was, byte for byte, and a live call that changes a scalar writes the
\* whole document anew, as '---' and the dump of the changed tree.
C20_WrittenIffChanged ==
    \A i \in DOMAIN calls :
        calls[i].fn = "update_yaml_file" =>
            /\ calls[i].after # calls[i].before =>
                   ~dry_run /\ calls[i].modified /\ CallChanged(calls[i]) # {}
            /\ ~calls[i].modified => calls[i].after = calls[i].before
            /\ (~dry_run /\ calls[i].modified) =>
                   /\ calls[i].after.dumped
                   /\ calls[i].after.parseable
                   /\ CallChanged(calls[i]) # {}
                   /\ "shape" \notin CallChanged(calls[i])

\* a live call changed a name in a document as authored and wrote the dump,
\* and the next live call, on a document that still holds the old name
\* under another key, changed nothing and left the file as it was
C20_Witness ==
    \E i, j \in DOMAIN calls :
        /\ ~dry_run
        /\ i < j
        /\ calls[i].modified
        /\ ~calls[i].before.dumped
        /\ calls[i].after.dumped
        /\ ~calls[j].modified
        /\ Mentions(calls[j].before, calls[j].old_name)
        /\ calls[j].after = calls[j].before

\* entry.parent / entry.name.replace('-', '_')
ValidPathOf(entry) ==
    Parent(entry) \o <<[i \in DOMAIN BaseName(entry) |->
                          IF BaseName(entry)[i] = "-" THEN "_" ELSE BaseName(entry)[i]]>>

\* the directories directly under roles/ with a hyphen in their name
HyphenChildren(f) ==
    {e \in Children(f, roles_dir) : IsDir(f, e) /\ "-" \in Range(BaseName(e))}

\* C21 as stated: the sweep of a live run leaves no directory directly
\* under roles/ that has a hyphen in its name beside a sibling directory of
\* the same name with underscores, and it deletes exactly the hyphenated
\* directories that have such a sibling directory, with what they hold, and
\* nothing else.
C21_SweepDeletesExactly ==
    [][(pc = "sweep" /\ pc' = "done" /\ ~dry_run) =>
          /\ \A e \in HyphenChildren(fs') : ~IsDir(fs', ValidPathOf(e))
          /\ DOMAIN fs \ DOMAIN fs' =
                 UNION {Under(fs, e) : e \in {c \in HyphenChildren(fs) :
                                                 IsDir(fs, ValidPathOf(c))}}]_vars

\* the place of the last dot of s (0 if it has none)
LastDot(s) ==
    IF "." \notin Range(s) THEN 0
    ELSE CHOOSE k \in DOMAIN s : s[k] = "." /\ \A j \in (k + 1)..Len(s) : s[j] # "."

\* C22 as stated: in a reference with a dot and without a slash (and that
\* is not as a whole the old name), the part after the last dot is replaced
\* by the new name when it is the old name being processed, and only then;
\* the part before the last dot stays as it is.
C22_DotSuffixOnly ==
    \A i \in DOMAIN calls :
        (/\ calls[i].fn = "update_role_reference"
         /\ "/" \notin Range(calls[i].role_ref)
         /\ "." \in Range(calls[i].role_ref)
         /\ calls[i].role_ref # calls[i].old_name)
            => LET ref == calls[i].role_ref
                   k   == LastDot(ref)
               IN  calls[i].result =
                       IF SubSeq(ref, k + 1, Len(ref)) = calls[i].old_name
                       THEN SubSeq(ref, 1, k) \o calls[i].new_name
                       ELSE ref

\* the strings that sit directly under a key role or name, at any depth of
\* mappings and sequences
RECURSIVE FieldScalars(_)
FieldScalars(v) ==
    (IF v.t = "map"
     THEN {v.items[i].s : i \in {j \in DOMAIN v.items :
               v.keys[j] \in {K_role, K_name} /\ v.items[j].t = "str"}}
     ELSE {})
        \cup UNION {FieldScalars(v.items[i]) : i \in DOMAIN v.items}

\* C23 as stated: the walk reaches every mapping of the parsed tree, so
\* after a live call on a document that parses, no scalar under a key role
\* or name is the old name any more, wherever it sits, inside a sequence
\* that is an item of a sequence included.
C23_WalkIsTotal ==
    \A i \in DOMAIN calls :
        (/\ calls[i].fn = "update_yaml_file"
         /\ ~dry_run
         /\ calls[i].before.parseable
         /\ ~calls[i].before.foreign)
            => calls[i].old_name \notin FieldScalars(calls[i].after.data)

\* the steps from one phase of main() to the next: the scan, the rename
\* map, the renames, the two loops of the rewriter, the cleanup; from the
\* end only a new run starts
PhaseSteps ==
    {<<"start", "map">>, <<"start", "done">>, <<"map", "exec">>, <<"map", "done">>,
     <<"exec", "exec">>, <<"exec", "meta">>, <<"meta", "meta">>, <<"meta", "play">>,
     <<"play", "play">>, <<"play", "sweep">>, <<"sweep", "done">>, <<"done", "start">>}

\* the directories and files of f, each with its place
PlacesOf(f) == {<<p, f[p].id>> : p \in DOMAIN f}

\* a file of f has another content in g
Rewritten(f, g) ==
    \E p \in DOMAIN f, q \in DOMAIN g :
        f[p].kind = "file" /\ g[q].id = f[p].id /\ g[q].body # f[p].body

\* C24: the phases run in the order scanner, rename map builder, executor,
\* rewriter, sweep, and do not overlap: the rename map changes only when
\* it is built, before any rename; a directory is renamed or removed only
\* by the executor and by the sweep; a document is written only by the
\* rewriter, after the last rename was attempted; the sweep runs after the
\* last document was handled.
C24_PhasesInOrder ==
    [][/\ <<pc, pc'>> \in PhaseSteps
       /\ rename_map' # rename_map =>
              \/ pc = "map" /\ ~Logged("move") /\ ~Logged("rmtree") /\ ~Logged("relink")
              \/ pc = "done" /\ rename_map' = <<>>
       /\ PlacesOf(fs') # PlacesOf(fs) => pc \in {"exec", "sweep"}
       /\ Rewritten(fs, fs') =>
              pc \in {"meta", "play"} /\ idx > Len(roles)
       /\ (pc = "sweep" /\ pc' = "done") => todo = {} /\ Logged("play")]_vars

\* a live run that renamed a directory, wrote a document and removed a
\* directory in the cleanup has ended
C24_Witness ==
    /\ pc = "done"
    /\ ~dry_run
    /\ Logged("move")
    /\ Logged("write")
    /\ Logged("removed")

\* C25 as stated: when one directory cannot be read during the scan, only
\* the roles in the subtree of that directory are missing from the result:
\* every role outside it, in its sibling directories and elsewhere, is
\* still found.
C25_OnlySubtreeMissing ==
    \A i \in DOMAIN calls :
        calls[i].fn = "find_roles with errors" =>
            /\ calls[i].paths \subseteq {d \in BelowRoles(fs) : IsDir(fs, d) /\ IsRoleDir(fs, d)}
            /\ \A d \in BelowRoles(fs) :
                   (IsDir(fs, d) /\ IsRoleDir(fs, d) /\ ~IsPrefix(arg.path, d))
                       => d \in calls[i].paths

\* the files of f whose text does not parse
Unparseable(f) ==
    {p \in DOMAIN f : f[p].kind = "file" /\ f[p].body.data # NullV /\ ~f[p].body.parseable}

\* C26: a document that does not parse is skipped and the run goes on.  No
\* step changes its content; the step of the rewriter that visits it
\* changes nothing in the tree and leaves the rest of the list to be
\* visited; a rewriter pass ends only when its list is empty; and at the
\* cleanup of a live run every document the rewriter works on is free of
\* the old names.
C26_UnparseableSkipped ==
    [][/\ \A p \in Unparseable(fs) : \A q \in NodesWithId(fs', fs[p].id) :
              fs'[q].body = fs[p].body
       /\ (pc \in {"meta", "play"} /\ pc' = pc) =>
              \E p \in todo :
                  /\ todo' = todo \ {p}
                  /\ p \in Unparseable(fs) => fs' = fs /\ log' = log
       /\ (pc \in {"meta", "play"} /\ pc' # pc) => todo = {}
       /\ (pc = "sweep" /\ ~dry_run /\ Unparseable(fs) # {}) =>
              \A k \in DictKeys(rename_map) : \A p \in DOMAIN fs :
                  Processed(fs, p) =>
                      \A i \in DOMAIN Refs(fs[p].body.data) :
                          ~HoldsName(Refs(fs[p].body.data)[i], k)]_vars

\* a live run has ended in which a meta/main.yml that does not parse held
\* an old name and was left as it was, and the playbook, visited after it,
\* was written
C26_Witness ==
    /\ pc = "done"
    /\ ~dry_run
    /\ \E p \in Unparseable(fs) \cap MetaFiles(fs) :
          /\ \E k \in DictKeys(rename_map) : Mentions(fs[p].body, k)
          /\ \E p0 \in NodesWithId(start_fs, fs[p].id) : start_fs[p0].body = fs[p].body
    /\ \E p \in DOMAIN fs : p \notin MetaFiles(fs) /\ LoggedFor("write", fs[p].id)

\* the tree holds no symbolic link
NoLinks(f) == \A p \in DOMAIN f : f[p].kind # "link"

\* a key of the table of renamed paths is a directory above path
RenamedAbove(path) ==
    \E i \in DOMAIN renamed_paths :
        IsPrefix(renamed_paths[i][1], path) /\ Len(path) > Len(renamed_paths[i][1])

\* C27: in a live run on a tree without symbolic links, whenever the
\* executor is at a unit of the sequence, the path the scan found for it
\* still exists and no key of the table of renamed paths is a directory
\* above it: the path is used as it is, and the executor never skips a
\* unit because its path is gone.
C27_ScannedPathStillValid ==
    (~dry_run /\ NoLinks(start_fs)) =>
        /\ ~Logged("stale")
        /\ (pc = "exec" /\ idx <= Len(roles)) =>
               /\ Exists(fs, roles[idx].path)
               /\ ~RenamedAbove(roles[idx].path)
               /\ current_path_of(roles[idx].path, renamed_paths) = roles[idx].path

\* the executor of a live run, on a tree without links, is at a unit to be
\* renamed after it renamed a unit found below that unit
C27_Witness ==
    /\ ~dry_run
    /\ NoLinks(start_fs)
    /\ pc = "exec"
    /\ idx <= Len(roles)
    /\ DictHas(rename_map, roles[idx].name)
    /\ \E i \in DOMAIN renamed_paths :
          /\ IsPrefix(roles[idx].path, renamed_paths[i][1])
          /\ Len(renamed_paths[i][1]) > Len(roles[idx].path)

\* C28 as stated: the content a document ends with does not depend on the
\* order in which the entries of the rename map are applied to it: applied
\* in any order, the entries leave the document as they leave it when
\* applied in the order of the map.
C28_OrderIndependent ==
    \A i \in DOMAIN calls :
        calls[i].fn = "update_each" =>
            calls[i].after = update_each(calls[i].before, rename_map,
                                         dry_run, rename_map).body

\* no rename of the run met a target that was there: no link replaced, no
\* source deleted, no rename refused
NoRenameConflict == ~Logged("relink") /\ ~Logged("rmtree") /\ ~Logged("fail")

\* C29 as stated: after a complete live run in which no rename met a
\* conflict, no directory directly under roles/ has a name that is a key of
\* the rename map.
C29_NoMappedNameLeft ==
    (pc = "done" /\ ~dry_run /\ NoRenameConflict) =>
        \A e \in Children(fs, roles_dir) :
            IsDir(fs, e) => BaseName(e) \notin DictKeys(rename_map)

\* no directory below roles/ with an invalid name has, when the run starts,
\* anything at the path of its fixed name
NoTargetAtStart ==
    \A p \in DOMAIN start_fs :
        (/\ IsDir(start_fs, p)
         /\ IsPrefix(roles_dir, p)
         /\ Len(p) > Len(roles_dir)
         /\ ~is_valid_role_name(BaseName(p)))
            => TargetOf(p) \notin DOMAIN start_fs

\* C30 as stated: when no target path is taken in the tree the run starts
\* with, after a complete live run the directory of every discovered unit
\* is there under the name it had or under its fixed name, with every
\* directory and file it held.
C30_UnitsSurviveWithoutTarget ==
    (pc = "done" /\ ~dry_run /\ NoTargetAtStart) =>
        \A p \in UnitPaths(start_fs) :
            \E p2 \in NodesWithId(fs, start_fs[p].id) :
                /\ BaseName(p2) \in {BaseName(p), fix_role_name(BaseName(p))}
                /\ \A q \in Under(start_fs, p) :
                      \E q2 \in Under(fs, p2) : fs[q2].id = start_fs[q].id

====
